---- MODULE Spec2Model ----
(***************************************************************************)
(* Ripple: feature flags read from encrypted DNS TXT records.              *)
(*                                                                         *)
(* Two engines are modelled:                                               *)
(*   - the single-record engine (src/unnamed/part_000): one TXT record     *)
(*     `ripple.<baseDomain>` holds a JSON object, cached per baseDomain;   *)
(*   - the per-flag engine (src/flags.ts, lines 1-92): one TXT record      *)
(*     `<featureName>.<baseDomain>` holds `name=rule` pairs, the rule is   *)
(*     cached per record name.                                             *)
(*                                                                         *)
(* JavaScript strings are sequences of one-character strings.  JavaScript  *)
(* values whose type is not fixed by the code are tagged records           *)
(* [t |-> type, v |-> payload].                                            *)
(***************************************************************************)
EXTENDS Integers, Sequences, FiniteSets, TLC

(***************************************************************************)
(* JavaScript values                                                       *)
(***************************************************************************)
Undefined == [t |-> "undefined"]
Null == [t |-> "null"]
Function == [t |-> "function"]
Str(s) == [t |-> "string", v |-> s]
Num(n) == [t |-> "number", v |-> n]
Bool(b) == [t |-> "boolean", v |-> b]
\* an array is the sequence of its elements, an object the sequence of its
\* own <<key, value>> properties in insertion order
Arr(elems) == [t |-> "array", v |-> elems]
Obj(props) == [t |-> "object", v |-> props]

Digits == <<"0", "1", "2", "3", "4", "5", "6", "7", "8", "9">>
IsDigit(c) == \E i \in 1..10 : Digits[i] = c
DigitValue(c) == (CHOOSE i \in 1..10 : Digits[i] = c) - 1

RECURSIVE DecimalValue(_)
\* value of a non-empty sequence of decimal digits
DecimalValue(ds) ==
    IF ds = <<>> THEN 0
    ELSE DecimalValue(SubSeq(ds, 1, Len(ds) - 1)) * 10 + DigitValue(ds[Len(ds)])

RECURSIVE DecimalString(_)
\* String(n) for a natural number n
DecimalString(n) ==
    IF n < 10 THEN <<Digits[n + 1]>>
    ELSE DecimalString(n \div 10) \o <<Digits[(n % 10) + 1]>>

\* String(n) for an integer n
NumberToString(n) == IF n < 0 THEN <<"-">> \o DecimalString(0 - n) ELSE DecimalString(n)

\* String.prototype.startsWith
StartsWith(s, prefix) ==
    /\ Len(s) >= Len(prefix)
    /\ SubSeq(s, 1, Len(prefix)) = prefix

\* position of the first occurrence of c in s at or after position from, 0 if none
IndexOf(s, c, from) ==
    IF \E i \in from..Len(s) : s[i] = c
    THEN CHOOSE i \in from..Len(s) : s[i] = c /\ \A j \in from..(i - 1) : s[j] # c
    ELSE 0

RECURSIVE Split(_, _)
\* String.prototype.split with a one-character separator
Split(s, sep) ==
    LET i == IndexOf(s, sep, 1)
    IN  IF i = 0 THEN <<s>>
        ELSE <<SubSeq(s, 1, i - 1)>> \o Split(SubSeq(s, i + 1, Len(s)), sep)

WhiteSpace == {" ", "\t", "\n"}

RECURSIVE SkipWhiteSpace(_)
SkipWhiteSpace(s) ==
    IF s # <<>> /\ s[1] \in WhiteSpace THEN SkipWhiteSpace(Tail(s)) ELSE s

RECURSIVE DigitPrefix(_)
\* the longest prefix of s made of decimal digits
DigitPrefix(s) ==
    IF s # <<>> /\ IsDigit(s[1]) THEN <<s[1]>> \o DigitPrefix(Tail(s)) ELSE <<>>

NaN == [nan |-> TRUE, val |-> 0]

\* parseInt(s, 10): leading white space is skipped, an optional sign is read,
\* then the longest run of digits; what follows the digits is ignored; no
\* digit at all gives NaN
parseInt(s) ==
    LET t == SkipWhiteSpace(s)
        neg == t # <<>> /\ t[1] = "-"
        u == IF t # <<>> /\ t[1] \in {"+", "-"} THEN Tail(t) ELSE t
        ds == DigitPrefix(u)
    IN  IF ds = <<>> THEN NaN
        ELSE [nan |-> FALSE, val |-> IF neg THEN 0 - DecimalValue(ds) ELSE DecimalValue(ds)]

\* ToBoolean
Truthy(x) ==
    CASE x.t = "undefined" -> FALSE
      [] x.t = "null" -> FALSE
      [] x.t = "boolean" -> x.v
      [] x.t = "number" -> x.v # 0
      [] x.t = "string" -> x.v # <<>>
      [] OTHER -> TRUE

\* a canonical array index: "0", or digits without a leading zero
IsIndexKey(key) ==
    /\ key # <<>>
    /\ \A i \in 1..Len(key) : IsDigit(key[i])
    /\ (Len(key) > 1 => key[1] # "0")

S_length == <<"l", "e", "n", "g", "t", "h">>
S_constructor == <<"c", "o", "n", "s", "t", "r", "u", "c", "t", "o", "r">>
S_toString == <<"t", "o", "S", "t", "r", "i", "n", "g">>
S_proto == <<"_", "_", "p", "r", "o", "t", "o", "_", "_">>

\* members every value inherits from Object.prototype: functions, and the
\* prototype object itself under __proto__
InheritedKeys == {S_constructor, S_toString, S_proto}

Inherited(key) ==
    IF key = S_proto THEN Obj(<<>>)
    ELSE IF key \in InheritedKeys THEN Function
    ELSE Undefined

\* the last own property of an object with the given key (a repeated key in a
\* JSON text keeps the last value)
OwnProperty(props, key) ==
    IF \E i \in 1..Len(props) : props[i][1] = key
    THEN props[CHOOSE i \in 1..Len(props) :
                   props[i][1] = key /\ \A j \in (i + 1)..Len(props) : props[j][1] # key][2]
    ELSE Inherited(key)

\* obj[key] for a value obj that is neither null nor undefined
GetProperty(obj, key) ==
    CASE obj.t = "object" -> OwnProperty(obj.v, key)
      [] obj.t = "array" ->
            IF IsIndexKey(key) /\ DecimalValue(key) < Len(obj.v) THEN obj.v[DecimalValue(key) + 1]
            ELSE IF key = S_length THEN Num(Len(obj.v))
            ELSE Inherited(key)
      [] obj.t = "string" ->
            IF IsIndexKey(key) /\ DecimalValue(key) < Len(obj.v) THEN Str(<<obj.v[DecimalValue(key) + 1]>>)
            ELSE IF key = S_length THEN Num(Len(obj.v))
            ELSE Inherited(key)
      [] OTHER -> Inherited(key)

(***************************************************************************)
(* Rollout bucket                                                          *)
(***************************************************************************)
S_a == <<"a">>
S_ab == <<"a", ".", "b">>
S_x == <<"x">>
S_bx == <<".", "b", "x">>
S_abx == <<"a", ".", "b", "x">>

\* the first four bytes of the SHA-256 digest of the strings the model hashes
\* (the values are those of the real digest)
DigestHead(s) ==
    CASE s = S_a \o S_x -> <<94, 133, 55, 14>>
      [] s = S_a \o S_bx -> <<183, 174, 195, 91>>
      [] s = S_ab \o S_bx -> <<135, 248, 149, 99>>
      [] s = S_constructor \o S_x -> <<73, 145, 145, 211>>
      [] s = S_constructor \o S_bx -> <<228, 59, 14, 214>>
      [] s = S_a \o <<":">> \o S_x -> <<239, 126, 68, 174>>
      [] s = S_a \o <<":">> \o S_bx -> <<208, 243, 187, 250>>
      [] s = S_ab \o <<":">> \o S_x -> <<247, 224, 71, 194>>
      [] s = S_ab \o <<":">> \o S_bx -> <<191, 110, 129, 162>>
      [] s = S_abx \o <<":">> -> <<239, 43, 128, 43>>

\* Buffer.readUInt32BE(0): an unsigned 32-bit value, kept as its two 16-bit
\* halves so that no intermediate value leaves the signed 32-bit range
readUInt32BE(bytes) ==
    [hi |-> bytes[1] * 256 + bytes[2], lo |-> bytes[3] * 256 + bytes[4]]

\* value % m for an unsigned 32-bit value and 0 < m <= 256
UInt32Mod(value, m) == ((value.hi % m) * (65536 % m) + value.lo) % m

\* the bucket without the shift to 1..100
RolloutValueOfDigest_zeroBased(digest) ==
    LET value == readUInt32BE(digest)
    IN  UInt32Mod(value, 100)

\* lines 32-33: the bucket of a digest
RolloutValueOfDigest(digest) ==
    LET value == readUInt32BE(digest)
    IN  UInt32Mod(value, 100) + 1

\* the bucket with a separator hashed between flag name and user identifier
_getUserRolloutValue_separated(featureName, userId) ==
    LET digest == DigestHead(featureName \o <<":">> \o userId)
    IN  RolloutValueOfDigest(digest)

_getUserRolloutValue(featureName, userId) ==
    LET digest == DigestHead(featureName \o userId)
    IN  RolloutValueOfDigest(digest)

(***************************************************************************)
(* Rule evaluation: the tail of isFlagEnabled                              *)
(***************************************************************************)
S_on == <<"o", "n">>
S_off == <<"o", "f", "f">>
S_rollout == <<"r", "o", "l", "l", "o", "u", "t", "=">>

\* results of a call: the promise resolves to true or false, or is rejected
\* with a TypeError
R_true == "true"
R_false == "false"
R_TypeError == "TypeError"

BoolResult(b) == IF b THEN R_true ELSE R_false

\* the rule evaluation with `percentage > 100` for the full rollout
EvaluateConfig_above100(config, featureName, userId) ==
    IF config.t \in {"null", "undefined"} THEN R_TypeError
    ELSE
    LET looked == GetProperty(config, featureName)
        flagRule == IF Truthy(looked) THEN looked ELSE Str(S_off)
    IN  IF flagRule.t = "string" /\ flagRule.v = S_on THEN R_true
        ELSE IF flagRule.t # "string" THEN R_TypeError
        ELSE IF StartsWith(flagRule.v, S_rollout) THEN
            LET percentage == parseInt(Split(flagRule.v, "=")[2])
            IN  IF percentage.nan THEN R_false
                ELSE IF percentage.val > 100 THEN R_true
                ELSE IF ~Truthy(userId) THEN R_false
                ELSE BoolResult(_getUserRolloutValue(featureName, userId.v) <= percentage.val)
        ELSE R_false

\* src/unnamed/part_000, lines 67-83; config is the value getFlagConfig returned
EvaluateConfig(config, featureName, userId) ==
    IF config.t \in {"null", "undefined"} THEN R_TypeError
    ELSE
    LET looked == GetProperty(config, featureName)
        flagRule == IF Truthy(looked) THEN looked ELSE Str(S_off)
    IN  IF flagRule.t = "string" /\ flagRule.v = S_on THEN R_true
        ELSE IF flagRule.t # "string" THEN R_TypeError
        ELSE IF StartsWith(flagRule.v, S_rollout) THEN
            LET percentage == parseInt(Split(flagRule.v, "=")[2])
            IN  IF percentage.nan THEN R_false
                ELSE IF percentage.val >= 100 THEN R_true
                ELSE IF ~Truthy(userId) THEN R_false
                ELSE BoolResult(_getUserRolloutValue(featureName, userId.v) <= percentage.val)
        ELSE R_false

\* the rule evaluation with `userValue < percentage`
EvaluateRule_below(flagRule, featureName, userId) ==
    IF flagRule = S_on THEN R_true
    ELSE IF StartsWith(flagRule, S_rollout) THEN
        LET percentage == parseInt(Split(flagRule, "=")[2])
        IN  IF percentage.nan THEN R_false
            ELSE IF percentage.val >= 100 THEN R_true
            ELSE IF ~Truthy(userId) THEN R_false
            ELSE BoolResult(_getUserRolloutValue(featureName, userId.v) < percentage.val)
    ELSE R_false

\* the rule evaluation with `percentage === 100` for the full rollout
EvaluateRule_exactly100(flagRule, featureName, userId) ==
    IF flagRule = S_on THEN R_true
    ELSE IF StartsWith(flagRule, S_rollout) THEN
        LET percentage == parseInt(Split(flagRule, "=")[2])
        IN  IF percentage.nan THEN R_false
            ELSE IF percentage.val = 100 THEN R_true
            ELSE IF ~Truthy(userId) THEN R_false
            ELSE BoolResult(_getUserRolloutValue(featureName, userId.v) <= percentage.val)
    ELSE R_false

\* src/flags.ts, lines 73-91; flagRule is a string
EvaluateRule(flagRule, featureName, userId) ==
    IF flagRule = S_on THEN R_true
    ELSE IF StartsWith(flagRule, S_rollout) THEN
        LET percentage == parseInt(Split(flagRule, "=")[2])
        IN  IF percentage.nan THEN R_false
            ELSE IF percentage.val >= 100 THEN R_true
            ELSE IF ~Truthy(userId) THEN R_false
            ELSE BoolResult(_getUserRolloutValue(featureName, userId.v) <= percentage.val)
    ELSE R_false

(***************************************************************************)
(* Text and byte encodings                                                 *)
(***************************************************************************)
Min(a, b) == IF a < b THEN a ELSE b
Max(a, b) == IF a > b THEN a ELSE b

\* s repeated n times
Repeat(s, n) == [i \in 1..(n * Len(s)) |-> s[((i - 1) % Len(s)) + 1]]

\* the printable ASCII characters, code 32 to 126 (the grave accent, code 96,
\* is written U+0060)
Ascii ==
    <<
    " ", "!", "\"", "#", "$", "%", "&", "'", "(", ")", "*", "+", ",", "-", ".", "/",
    "0", "1", "2", "3", "4", "5", "6", "7", "8", "9", ":", ";", "<", "=", ">", "?",
    "@", "A", "B", "C", "D", "E", "F", "G", "H", "I", "J", "K", "L", "M", "N", "O",
    "P", "Q", "R", "S", "T", "U", "V", "W", "X", "Y", "Z", "[", "\\", "]", "^", "_",
    "U+0060", "a", "b", "c", "d", "e", "f", "g", "h", "i", "j", "k", "l", "m", "n", "o",
    "p", "q", "r", "s", "t", "u", "v", "w", "x", "y", "z", "{", "|", "}", "~"
    >>

CharCodes == [c \in {Ascii[i] : i \in 1..95} |-> 31 + CHOOSE i \in 1..95 : Ascii[i] = c]
CharCode(c) == CharCodes[c]

\* a character outside ASCII, two bytes long in UTF-8: U+00E9, bytes C3 A9
EAcute == "U+00E9"

\* the character a byte that starts no character of the model decodes to
ReplacementChar == "U+FFFD"

\* Buffer.from(text, 'utf-8') for texts of printable ASCII characters and
\* EAcute, which takes the two bytes 195 169
Utf8Encode(s) ==
    LET Width(i) == IF s[i] = EAcute THEN 2 ELSE 1
        Before(i) == Cardinality({j \in 1..(i - 1) : s[j] = EAcute}) + (i - 1)
        Total == Before(Len(s) + 1)
        Owner(k) == CHOOSE i \in 1..Len(s) : Before(i) < k /\ k <= Before(i) + Width(i)
    IN  [k \in 1..Total |->
            IF s[Owner(k)] # EAcute THEN CharCode(s[Owner(k)])
            ELSE IF k = Before(Owner(k)) + 1 THEN 195 ELSE 169]

\* Buffer.toString('utf-8'): printable ASCII bytes and the pair 195 169 give
\* their character, any other byte gives U+FFFD
Utf8Decode(bytes) ==
    LET Continues(i) == i > 1 /\ bytes[i] = 169 /\ bytes[i - 1] = 195
        Leads == {i \in 1..Len(bytes) : ~Continues(i)}
        Lead(k) == CHOOSE i \in Leads : Cardinality({j \in Leads : j < i}) = k - 1
        Char(i) == IF bytes[i] >= 32 /\ bytes[i] <= 126 THEN Ascii[bytes[i] - 31]
                   ELSE IF i < Len(bytes) /\ Continues(i + 1) THEN EAcute
                   ELSE ReplacementChar
    IN  [k \in 1..Cardinality(Leads) |-> Char(Lead(k))]

Base64Alphabet ==
    <<
    "A", "B", "C", "D", "E", "F", "G", "H", "I", "J", "K", "L", "M", "N", "O", "P",
    "Q", "R", "S", "T", "U", "V", "W", "X", "Y", "Z", "a", "b", "c", "d", "e", "f",
    "g", "h", "i", "j", "k", "l", "m", "n", "o", "p", "q", "r", "s", "t", "u", "v",
    "w", "x", "y", "z", "0", "1", "2", "3", "4", "5", "6", "7", "8", "9", "+", "/"
    >>

Base64Chars == {Base64Alphabet[i] : i \in 1..64}
Sextets == [c \in Base64Chars |-> (CHOOSE i \in 1..64 : Base64Alphabet[i] = c) - 1]
IsBase64Char(c) == c \in Base64Chars
Sextet(c) == Sextets[c]

\* the three bytes of group g (from 0) of a buffer, 0 beyond its end
GroupByte(bytes, g, k) == IF 3 * g + k <= Len(bytes) THEN bytes[3 * g + k] ELSE 0

\* Buffer.toString('base64'): every group of three bytes gives four
\* characters; a last group of one or two bytes is padded with "="
Base64Encode(bytes) ==
    LET n == Len(bytes)
        Char(g, j) ==
            LET b1 == GroupByte(bytes, g, 1)
                b2 == GroupByte(bytes, g, 2)
                b3 == GroupByte(bytes, g, 3)
            IN  CASE j = 1 -> Base64Alphabet[(b1 \div 4) + 1]
                  [] j = 2 -> Base64Alphabet[((b1 % 4) * 16 + (b2 \div 16)) + 1]
                  [] j = 3 -> IF 3 * g + 2 > n THEN "="
                              ELSE Base64Alphabet[((b2 % 16) * 4 + (b3 \div 64)) + 1]
                  [] j = 4 -> IF 3 * g + 3 > n THEN "="
                              ELSE Base64Alphabet[(b3 % 64) + 1]
    IN  [i \in 1..(4 * ((n + 2) \div 3)) |-> Char((i - 1) \div 4, ((i - 1) % 4) + 1)]

\* the 6-bit values of a base64 text: reading stops at the first padding
\* character, characters outside the alphabet are skipped
Base64Sextets(text) ==
    LET pad == IndexOf(text, "=", 1)
        data == IF pad = 0 THEN text ELSE SubSeq(text, 1, pad - 1)
        kept == SelectSeq(data, IsBase64Char)
    IN  [i \in 1..Len(kept) |-> Sextet(kept[i])]

\* every four 6-bit values give three bytes; three left over give two bytes,
\* two give one, one gives none
SextetsToBytes(q) ==
    LET Byte(g, k) ==
            CASE k = 1 -> q[4 * g + 1] * 4 + (q[4 * g + 2] \div 16)
              [] k = 2 -> (q[4 * g + 2] % 16) * 16 + (q[4 * g + 3] \div 4)
              [] k = 3 -> (q[4 * g + 3] % 4) * 64 + q[4 * g + 4]
    IN  [i \in 1..((Len(q) * 6) \div 8) |-> Byte((i - 1) \div 3, ((i - 1) % 3) + 1)]

\* Buffer.from(text, 'base64'): never throws
Base64Decode(text) == SextetsToBytes(Base64Sextets(text))

HexDigits ==
    <<"0", "1", "2", "3", "4", "5", "6", "7", "8", "9", "a", "b", "c", "d", "e", "f">>
HexDigitsUpper ==
    <<"0", "1", "2", "3", "4", "5", "6", "7", "8", "9", "A", "B", "C", "D", "E", "F">>

HexChars == {HexDigits[i] : i \in 1..16} \cup {HexDigitsUpper[i] : i \in 1..16}
HexValues == [c \in HexChars |-> (CHOOSE i \in 1..16 : HexDigits[i] = c \/ HexDigitsUpper[i] = c) - 1]
IsHexDigit(c) == c \in HexChars
HexValue(c) == HexValues[c]

\* Buffer.from(text, 'hex'): decoding stops at the first pair that is not two
\* hexadecimal digits; it never throws
HexDecode(s) ==
    LET IsPair(k) == IsHexDigit(s[2 * k - 1]) /\ IsHexDigit(s[2 * k])
        pairs == Len(s) \div 2
        n == IF \A k \in 1..pairs : IsPair(k) THEN pairs
             ELSE (CHOOSE k \in 1..pairs : ~IsPair(k) /\ \A j \in 1..(k - 1) : IsPair(j)) - 1
    IN  [k \in 1..n |-> HexValue(s[2 * k - 1]) * 16 + HexValue(s[2 * k])]

\* Buffer.subarray(start, end): a negative offset counts from the end
SubarrayOffset(n, len) == IF n < 0 THEN Max(len + n, 0) ELSE Min(n, len)
Subarray(buffer, start, end) ==
    SubSeq(buffer, SubarrayOffset(start, Len(buffer)) + 1, SubarrayOffset(end, Len(buffer)))

(***************************************************************************)
(* Cryptography                                                            *)
(*                                                                         *)
(* AES-256-GCM is replaced by a keystream cipher with a keyed tag over     *)
(* key, nonce and ciphertext.  It keeps what the engine relies on:         *)
(* decryption inverts encryption under the same key and nonce, and         *)
(* final() throws when the tag does not verify.                            *)
(***************************************************************************)
IV_LENGTH == 16
AUTH_TAG_LENGTH == 16
KEY_LENGTH == 32

RECURSIVE WeightedSum(_, _, _)
\* the sum of (bytes[i] + 1) * (i + 1) over lo..hi, modulo the prime 65521
WeightedSum(bytes, lo, hi) ==
    IF lo > hi THEN 0
    ELSE IF lo = hi THEN ((bytes[lo] + 1) * (lo + 1)) % 65521
    ELSE LET mid == (lo + hi) \div 2
         IN  (WeightedSum(bytes, lo, mid) + WeightedSum(bytes, mid + 1, hi)) % 65521

\* a checksum that changes whenever one byte changes
Mix(bytes) == (WeightedSum(bytes, 1, Len(bytes)) + Len(bytes)) % 65521

GcmKeystream(key, iv, n) ==
    LET h == Mix(key \o iv) IN [i \in 1..n |-> (h + 7 * i) % 256]

\* cipher.update(plaintext) / cipher.final()
GcmEncrypt(key, iv, plain) ==
    LET ks == GcmKeystream(key, iv, Len(plain))
    IN  [i \in 1..Len(plain) |-> (plain[i] + ks[i]) % 256]

\* decipher.update(ciphertext)
GcmDecrypt(key, iv, ciphertext) ==
    LET ks == GcmKeystream(key, iv, Len(ciphertext))
    IN  [i \in 1..Len(ciphertext) |-> (ciphertext[i] + 256 - ks[i]) % 256]

\* cipher.getAuthTag(): 16 bytes
GcmTag(key, iv, ciphertext) ==
    LET h == Mix(key \o iv \o ciphertext)
    IN  <<h \div 256, h % 256>> \o [j \in 1..(AUTH_TAG_LENGTH - 2) |-> (h + 37 * j) % 256]

\* tag lengths decipher.setAuthTag accepts
ValidTagLengths == {4, 8, 12, 13, 14, 15, 16}

\* randomBytes(IV_LENGTH): the n-th nonce
randomBytes(n) == [i \in 1..IV_LENGTH |-> (n * 17 + i * 29) % 256]

\* encrypt, lines 10-13: the three parts of the envelope
encrypt_parts(plaintext, secret, iv) ==
    LET key == HexDecode(secret)
        ciphertext == GcmEncrypt(key, iv, Utf8Encode(plaintext))
        authTag == GcmTag(key, iv, ciphertext)
    IN  [iv |-> iv, ciphertext |-> ciphertext, authTag |-> authTag]

\* encrypt with the tag written before the ciphertext
encrypt_tagFirst(plaintext, secret, iv) ==
    LET key == HexDecode(secret)
        ciphertext == GcmEncrypt(key, iv, Utf8Encode(plaintext))
        authTag == GcmTag(key, iv, ciphertext)
    IN  Base64Encode(iv \o authTag \o ciphertext)

\* encrypt of src/encrypt-flag.js and of src/unnamed/part_001, with the nonce
\* that randomBytes returned; secret decodes to a 32-byte key
encrypt(plaintext, secret, iv) ==
    LET key == HexDecode(secret)
        ciphertext == GcmEncrypt(key, iv, Utf8Encode(plaintext))
        authTag == GcmTag(key, iv, ciphertext)
    IN  Base64Encode(iv \o ciphertext \o authTag)

Thrown == [ok |-> FALSE, text |-> <<>>]

\* decrypt, lines 18-21: the envelope split in nonce, tag and ciphertext
decrypt_parts(encryptedText) ==
    LET buffer == Base64Decode(encryptedText)
    IN  [iv |-> Subarray(buffer, 0, IV_LENGTH),
         authTag |-> Subarray(buffer, Len(buffer) - AUTH_TAG_LENGTH, Len(buffer)),
         ciphertext |-> Subarray(buffer, IV_LENGTH, Len(buffer) - AUTH_TAG_LENGTH)]

\* decrypt without setAuthTag: the plaintext is released unverified
decrypt_unauthenticated(encryptedText, secret) ==
    LET buffer == Base64Decode(encryptedText)
        iv == Subarray(buffer, 0, IV_LENGTH)
        ciphertext == Subarray(buffer, IV_LENGTH, Len(buffer) - AUTH_TAG_LENGTH)
        key == HexDecode(secret)
    IN  IF Len(key) # KEY_LENGTH \/ Len(iv) = 0 THEN Thrown
        ELSE [ok |-> TRUE, text |-> Utf8Decode(GcmDecrypt(key, iv, ciphertext))]

\* decrypt of src/unnamed/part_000 and of src/flags.ts: [ok |-> TRUE, text]
\* when it returns, Thrown when createDecipheriv, setAuthTag or final throws
decrypt(encryptedText, secret) ==
    LET buffer == Base64Decode(encryptedText)
        iv == Subarray(buffer, 0, IV_LENGTH)
        authTag == Subarray(buffer, Len(buffer) - AUTH_TAG_LENGTH, Len(buffer))
        ciphertext == Subarray(buffer, IV_LENGTH, Len(buffer) - AUTH_TAG_LENGTH)
        key == HexDecode(secret)
    IN  IF Len(key) # KEY_LENGTH \/ Len(iv) = 0 THEN Thrown
        ELSE IF Len(authTag) \notin ValidTagLengths THEN Thrown
        ELSE IF SubSeq(GcmTag(key, iv, ciphertext), 1, Len(authTag)) # authTag THEN Thrown
        ELSE [ok |-> TRUE, text |-> Utf8Decode(GcmDecrypt(key, iv, ciphertext))]

(***************************************************************************)
(* Parsing the decrypted payload                                           *)
(***************************************************************************)
S_null == <<"n", "u", "l", "l">>
S_true == <<"t", "r", "u", "e">>
S_false == <<"f", "a", "l", "s", "e">>

ParseFailure == [ok |-> FALSE, val |-> Undefined, rest |-> <<>>]
Parsed(val, rest) == [ok |-> TRUE, val |-> val, rest |-> rest]

\* a JSON string literal at the head of s (escape sequences are outside the
\* payloads of the model and are rejected)
ParseString(s) ==
    LET close == IndexOf(s, "\"", 2)
        content == SubSeq(s, 2, close - 1)
    IN  IF s = <<>> \/ s[1] # "\"" \/ close = 0 THEN ParseFailure
        ELSE IF \E i \in 1..Len(content) : content[i] = "\\" THEN ParseFailure
        ELSE Parsed(content, SubSeq(s, close + 1, Len(s)))

\* a JSON integer literal at the head of s (fractions and exponents are
\* outside the payloads of the model and are rejected)
ParseNumber(s) ==
    LET neg == s # <<>> /\ s[1] = "-"
        u == IF neg THEN Tail(s) ELSE s
        ds == DigitPrefix(u)
        rest == SubSeq(u, Len(ds) + 1, Len(u))
    IN  IF ds = <<>> \/ (Len(ds) > 1 /\ ds[1] = "0") THEN ParseFailure
        ELSE IF rest # <<>> /\ rest[1] \in {".", "e", "E"} THEN ParseFailure
        ELSE Parsed(Num(IF neg THEN 0 - DecimalValue(ds) ELSE DecimalValue(ds)), rest)

RECURSIVE ParseValue(_), ParseElements(_, _), ParseMembers(_, _)

\* a JSON value at the head of s
ParseValue(s) ==
    LET t == SkipWhiteSpace(s)
    IN  IF t = <<>> THEN ParseFailure
        ELSE IF StartsWith(t, S_null) THEN Parsed(Null, SubSeq(t, 5, Len(t)))
        ELSE IF StartsWith(t, S_true) THEN Parsed(Bool(TRUE), SubSeq(t, 5, Len(t)))
        ELSE IF StartsWith(t, S_false) THEN Parsed(Bool(FALSE), SubSeq(t, 6, Len(t)))
        ELSE IF t[1] = "\"" THEN
            LET r == ParseString(t)
            IN  IF r.ok THEN Parsed(Str(r.val), r.rest) ELSE ParseFailure
        ELSE IF t[1] = "-" \/ IsDigit(t[1]) THEN ParseNumber(t)
        ELSE IF t[1] = "[" THEN
            LET u == SkipWhiteSpace(Tail(t))
            IN  IF u # <<>> /\ u[1] = "]" THEN Parsed(Arr(<<>>), Tail(u))
                ELSE ParseElements(u, <<>>)
        ELSE IF t[1] = "{" THEN
            LET u == SkipWhiteSpace(Tail(t))
            IN  IF u # <<>> /\ u[1] = "}" THEN Parsed(Obj(<<>>), Tail(u))
                ELSE ParseMembers(u, <<>>)
        ELSE ParseFailure

\* the elements of an array after "[", up to and including "]"
ParseElements(s, acc) ==
    LET r == ParseValue(s)
        t == SkipWhiteSpace(r.rest)
    IN  IF ~r.ok \/ t = <<>> THEN ParseFailure
        ELSE IF t[1] = "," THEN ParseElements(Tail(t), Append(acc, r.val))
        ELSE IF t[1] = "]" THEN Parsed(Arr(Append(acc, r.val)), Tail(t))
        ELSE ParseFailure

\* the members of an object after "{", up to and including "}"
ParseMembers(s, acc) ==
    LET k == ParseString(SkipWhiteSpace(s))
        c == SkipWhiteSpace(k.rest)
        r == ParseValue(Tail(c))
        t == SkipWhiteSpace(r.rest)
    IN  IF ~k.ok \/ c = <<>> \/ c[1] # ":" THEN ParseFailure
        ELSE IF ~r.ok \/ t = <<>> THEN ParseFailure
        ELSE IF t[1] = "," THEN ParseMembers(Tail(t), Append(acc, <<k.val, r.val>>))
        ELSE IF t[1] = "}" THEN Parsed(Obj(Append(acc, <<k.val, r.val>>)), Tail(t))
        ELSE ParseFailure

\* JSON.parse: [ok |-> TRUE, val] when it returns, ok = FALSE when it throws
\* a SyntaxError
JSON_parse(text) ==
    LET r == ParseValue(text)
    IN  IF r.ok /\ SkipWhiteSpace(r.rest) = <<>> THEN [ok |-> TRUE, val |-> r.val]
        ELSE [ok |-> FALSE, val |-> Undefined]

\* String.prototype.replace(/;/g, '&')
ReplaceSemicolons(s) == [i \in 1..Len(s) |-> IF s[i] = ";" THEN "&" ELSE s[i]]

\* the decoding URLSearchParams applies to names and values: "+" is a space
\* (percent escapes are outside the payloads of the model)
FormDecode(s) == [i \in 1..Len(s) |-> IF s[i] = "+" THEN " " ELSE s[i]]

\* new URLSearchParams(init).get(name): the value of the first pair with that
\* name, null when there is none
URLSearchParams_get(init, name) ==
    LET query == IF init # <<>> /\ init[1] = "?" THEN Tail(init) ELSE init
        pieces == Split(query, "&")
        Name(p) == FormDecode(IF IndexOf(p, "=", 1) = 0 THEN p
                              ELSE SubSeq(p, 1, IndexOf(p, "=", 1) - 1))
        Value(p) == FormDecode(IF IndexOf(p, "=", 1) = 0 THEN <<>>
                               ELSE SubSeq(p, IndexOf(p, "=", 1) + 1, Len(p)))
        Matches(i) == pieces[i] # <<>> /\ Name(pieces[i]) = name
    IN  IF \E i \in 1..Len(pieces) : Matches(i)
        THEN Str(Value(pieces[CHOOSE i \in 1..Len(pieces) :
                                  Matches(i) /\ \A j \in 1..(i - 1) : ~Matches(j)]))
        ELSE Null

(***************************************************************************)
(* Bounds and inputs                                                       *)
(***************************************************************************)
\* concurrent evaluations
NumCalls == 2
\* evaluations started in one behaviour
MaxCalls == 2
\* clock advances in one behaviour
MaxTicks == 2
\* evaluations started in one behaviour of the rule specification
RuleCalls == 2

CallIds == 1..NumCalls

S_bc == <<"b", ".", "c">>
S_c == <<"c">>
S_ripple == <<"r", "i", "p", "p", "l", "e">>

FeatureNames == {S_a, S_ab, S_constructor}
BaseDomains == {S_bc, S_c}
UserIds == {Undefined, Str(<<>>), Str(S_x), Str(S_bx)}

\* the evaluations the application makes: <<featureName, baseDomain, userId>>.
\* In single-record mode ripple.b.c holds the configuration with the rule of
\* a.b and ripple.c holds a configuration that turns a on; in per-flag mode
\* a.b.c holds the rule of flag a.b of base domain c, a.c turns flag a of base
\* domain c on, and no other record exists.
SingleRequests ==
    { <<S_ab, S_bc, Str(S_x)>>, <<S_ab, S_bc, Str(S_bx)>>, <<S_ab, S_bc, Undefined>>,
      <<S_a, S_bc, Str(S_x)>>, <<S_constructor, S_bc, Undefined>>, <<S_a, S_c, Undefined>> }
PerFlagRequests ==
    { <<S_ab, S_c, Str(S_x)>>, <<S_ab, S_c, Str(S_bx)>>, <<S_ab, S_c, Undefined>>,
      <<S_a, S_bc, Str(S_x)>>, <<S_constructor, S_c, Undefined>>, <<S_a, S_c, Undefined>> }

\* rule strings: `rollout=<n>` as the encrypting tool writes it, and others
Percentages == {0 - 5, 0, 4, 25, 100, 150}
RolloutRule(n) == S_rollout \o NumberToString(n)
OddRules ==
    { S_rollout,
      S_rollout \o <<"a", "b", "c">>,
      S_rollout \o <<"2", "5", "a", "b", "c">>,
      S_rollout \o <<"5", "=", "0">>,
      <<"O", "N">>,
      <<"e", "n", "a", "b", "l", "e", "d">> }
RuleStrings == {S_on, S_off} \cup {RolloutRule(n) : n \in Percentages} \cup OddRules

\* secrets: 64 hexadecimal characters is the valid shape
GoodSecret == Repeat(<<"9", "a">>, 32)
OtherSecret == Repeat(<<"1", "b">>, 32)
AttackerSecret == Repeat(<<"e", "7">>, 32)
ShortSecret == Repeat(<<"9", "a">>, 6)
NonHexSecret == Repeat(<<"9", "a">>, 31) \o <<"z", "z">>
LongSecret == GoodSecret \o <<"z", "z">>

\* the key the operator encrypts with
PublisherSecret == GoodSecret

BadSecrets ==
    {Undefined, Str(<<>>), Str(OtherSecret), Str(ShortSecret), Str(NonHexSecret), Str(LongSecret)}

\* single-record mode: the JSON text published at ripple.b.c
JsonConfig(value) ==
    <<"{", "\"", "a", ".", "b", "\"", ":">> \o value \o <<"}">>
Quoted(s) == <<"\"">> \o s \o <<"\"">>
\* payloads that are JSON but not an object of strings, and one that is not JSON
OddJson ==
    { S_null,
      <<"[">> \o Quoted(S_on) \o <<"]">>,
      Quoted(S_on),
      <<"7">>,
      S_true,
      JsonConfig(<<"5">>),
      JsonConfig(S_true),
      S_ab \o <<"=">> \o S_on }
\* the JSON text published at ripple.c
SingleSecondary == <<"{", "\"", "a", "\"", ":">> \o Quoted(S_on) \o <<"}">>

\* per-flag mode: the pairs published at a.b.c for flag a.b of base domain c
FlagPlaintext(name, rule) == name \o <<"=">> \o rule
OddPairs ==
    { FlagPlaintext(S_a, S_off) \o <<";">> \o FlagPlaintext(S_ab, S_on),
      S_ab }
\* the pair published at a.c for flag a of base domain c
PerFlagSecondary == FlagPlaintext(S_a, S_on)

\* the cache and concurrency specification: every secret, every payload shape,
\* one rollout rule
Scenarios ==
    [mode : {"single"}, secret : {Str(GoodSecret)},
     published : {JsonConfig(Quoted(RolloutRule(25)))} \cup OddJson] \cup
    [mode : {"single"}, secret : BadSecrets, published : {JsonConfig(Quoted(S_on))}] \cup
    [mode : {"perflag"}, secret : {Str(GoodSecret)},
     published : {FlagPlaintext(S_ab, RolloutRule(25))} \cup OddPairs] \cup
    [mode : {"perflag"}, secret : BadSecrets, published : {FlagPlaintext(S_ab, S_on)}]

\* the rule specification: every rule string
RuleScenarios ==
    [mode : {"single"}, secret : {Str(GoodSecret)},
     published : {JsonConfig(Quoted(r)) : r \in RuleStrings}] \cup
    [mode : {"perflag"}, secret : {Str(GoodSecret)},
     published : {FlagPlaintext(S_ab, r) : r \in RuleStrings}]

(***************************************************************************)
(* State                                                                   *)
(***************************************************************************)
VARIABLES
    mode,          \* which engine the application imports: "single" or "perflag"
    secret,        \* process.env.RIPPLE_SECRET / process.env.GHOSTFLAGS_SECRET
    published,     \* the plaintext the operator published at the primary record
    wire,          \* the texts the network can deliver, with decrypt's verdict on each
    now,           \* Date.now()
    configCache,   \* part_000: Map baseDomain -> {value, expires}
    flagCache,     \* flags.ts: Map domain -> {value, expires}
    calls,         \* the evaluations: position, arguments, result
    resolveCount,  \* number of dns.resolveTxt calls made so far
    callsLeft,     \* evaluations that may still start
    ticksLeft,     \* clock advances that may still happen
    probe          \* the function applications made outside the engine, with their results

vars == <<mode, secret, published, wire, now, configCache, flagCache, calls, resolveCount,
          callsLeft, ticksLeft, probe>>

\* `${a}.${b}`
Dot(a, b) == a \o <<".">> \o b

\* the record names of the zone and the plaintext published at each
PrimaryName(m) == IF m = "single" THEN Dot(S_ripple, S_bc) ELSE Dot(S_ab, S_c)
SecondaryName(m) == IF m = "single" THEN Dot(S_ripple, S_c) ELSE Dot(S_a, S_c)
SecondaryPlaintext(m) == IF m = "single" THEN SingleSecondary ELSE PerFlagSecondary
\* every name the engine can ask for
AllNames ==
    {Dot(S_ripple, b) : b \in BaseDomains} \cup
    {Dot(f, b) : f \in FeatureNames, b \in BaseDomains}

\* one character of a base64 text changed in transit
Tamper(text, i) == [text EXCEPT ![i] = IF text[i] = "A" THEN "B" ELSE "A"]
\* one position in the nonce, one in the ciphertext, one in the tag
TamperPositions(text) == {2, 24, Len(text) - 6}

\* an envelope made without the publisher's key
ForgedText(m) ==
    encrypt(IF m = "single" THEN SingleSecondary ELSE FlagPlaintext(S_ab, S_on),
            AttackerSecret, randomBytes(3))

\* The texts the network can deliver for each name: the TXT value the
\* operator published (the envelope under the publisher's key, the primary
\* record with the first nonce, the secondary with the second), that value
\* with one character changed, and for every name a forged envelope.  decrypt
\* is a function of the text and of the secret, which does not change, so
\* its verdict on each text is computed here, once.
Delivery(names, text, key) ==
    [names |-> names, text |-> text,
     plain |-> IF key.t = "string" THEN decrypt(text, key.v) ELSE [ok |-> FALSE, text |-> <<>>]]
Deliveries(names, text, key) ==
    <<Delivery(names, text, key)>> \o
    [i \in 1..3 |-> Delivery(names, Tamper(text, CHOOSE q \in TamperPositions(text) :
                        Cardinality({r \in TamperPositions(text) : r < q}) = i - 1), key)]
Wire(m, key, plaintext) ==
    Deliveries({PrimaryName(m)}, encrypt(plaintext, PublisherSecret, randomBytes(1)), key) \o
    Deliveries({SecondaryName(m)}, encrypt(SecondaryPlaintext(m), PublisherSecret, randomBytes(2)), key) \o
    <<Delivery(AllNames, ForgedText(m), key)>>

\* decrypt(encryptedText, secret): the verdict computed before when the text
\* is one of the wire, computed now otherwise
Decrypt(encryptedText, key) ==
    IF \E i \in 1..Len(wire) : wire[i].text = encryptedText
    THEN wire[CHOOSE i \in 1..Len(wire) : wire[i].text = encryptedText].plain
    ELSE decrypt(encryptedText, key)

\* what dns.resolveTxt(fqdn) can do: throw, or return the list of records,
\* each a list of strings; a long value arrives split in two strings
Threw == [err |-> TRUE, records |-> <<>>]
Returned(records) == [err |-> FALSE, records |-> records]
InChunks(text) == <<SubSeq(text, 1, Len(text) \div 2), SubSeq(text, (Len(text) \div 2) + 1, Len(text))>>
ResolverOutcomes(fqdn) ==
    {Threw, Returned(<<>>), Returned(<< <<>> >>), Returned(<< << <<>> >> >>)} \cup
    {Returned(<< InChunks(wire[i].text) >>) : i \in {j \in 1..Len(wire) : fqdn \in wire[j].names}}

RECURSIVE Join(_)
\* Array.prototype.join('') of a list of strings
Join(strings) == IF strings = <<>> THEN <<>> ELSE Head(strings) \o Join(Tail(strings))

\* Array.prototype.flat() of a list of lists: one level
Flat(lists) == Join(lists)

(***************************************************************************)
(* Cache entries and evaluations                                           *)
(*                                                                         *)
(* An entry is {value, expires} as in the code; `failure`, `written` and   *)
(* `writer` are history: whether the catch block wrote it, when, and for   *)
(* which (featureName, baseDomain).  An evaluation records how it got its  *)
(* configuration: `hit` and `used` (the entry it was served from),         *)
(* `resolved` (it called the resolver), `cause` (how the refresh ended),   *)
(* `config` (the configuration or rule it evaluated) and `replaced` (the   *)
(* entry its refresh overwrote).                                           *)
(***************************************************************************)
Entry(value, expires, failure, writer) ==
    [value |-> value, expires |-> expires, failure |-> failure, written |-> now, writer |-> writer]

NoEntry == [absent |-> TRUE]

Idle ==
    [pc |-> "idle", featureName |-> S_a, baseDomain |-> S_c, userId |-> Undefined,
     result |-> "none", startedAt |-> 0, hit |-> FALSE, used |-> NoEntry,
     resolved |-> FALSE, cause |-> "none", config |-> Undefined, replaced |-> NoEntry]

\* Map.prototype.get
Stored(map, key) == IF key \in DOMAIN map THEN map[key] ELSE NoEntry

\* Map.prototype.set
MapSet(map, key, entry) == (key :> entry) @@ map

\* a cache check that never finds a live entry
Live_never(map, key) == key \in DOMAIN map /\ now < map[key].written

\* an entry still served at the instant it expires
Live_inclusive(map, key) == key \in DOMAIN map /\ now <= map[key].expires

\* cachedEntry && Date.now() < cachedEntry.expires
Live(map, key) == key \in DOMAIN map /\ now < map[key].expires

\* a new evaluation takes the first slot that is not suspended
FreeSlot(c) == calls[c].pc # "awaiting" /\ \A d \in 1..(c - 1) : calls[d].pc = "awaiting"

(***************************************************************************)
(* The single-record engine: src/unnamed/part_000                          *)
(***************************************************************************)
CONFIG_RECORD_NAME == S_ripple
DEFAULT_CACHE_TTL_MS == 60 * 1000
FAILURE_CACHE_TTL_MS == 10 * 1000

EmptyConfig == Obj(<<>>)

\* getFlagConfig, lines 50-62, once dns.resolveTxt has settled with `outcome`:
\* what the try block or the catch block stores and returns
getFlagConfig(baseDomain, outcome) ==
    LET encryptedValue == Join(Flat(outcome.records))
        decrypted == Decrypt(encryptedValue, secret.v)
        parsed == JSON_parse(decrypted.text)
        cause == IF outcome.err \/ encryptedValue = <<>> THEN "lookup"
                 ELSE IF ~decrypted.ok THEN "decrypt"
                 ELSE IF ~parsed.ok THEN "parse"
                 ELSE "ok"
    IN  IF cause = "ok"
        THEN [cause |-> cause, config |-> parsed.val,
              entry |-> Entry(parsed.val, now + DEFAULT_CACHE_TTL_MS, FALSE, <<S_ripple, baseDomain>>)]
        ELSE [cause |-> cause, config |-> EmptyConfig,
              entry |-> Entry(EmptyConfig, now + FAILURE_CACHE_TTL_MS, TRUE, <<S_ripple, baseDomain>>)]

\* isFlagEnabled up to the suspension at dns.resolveTxt: a live cache entry or
\* an unusable secret ends the call at once
isFlagEnabled(c, featureName, baseDomain, userId) ==
    /\ mode = "single"
    /\ FreeSlot(c)
    /\ callsLeft > 0
    /\ callsLeft' = callsLeft - 1
    /\ LET started == [Idle EXCEPT !.featureName = featureName, !.baseDomain = baseDomain,
                                   !.userId = userId, !.startedAt = now]
       IN  IF Live(configCache, baseDomain)
           THEN /\ calls' = [calls EXCEPT ![c] =
                        [started EXCEPT !.pc = "done", !.hit = TRUE,
                                        !.used = configCache[baseDomain],
                                        !.config = configCache[baseDomain].value,
                                        !.result = EvaluateConfig(configCache[baseDomain].value,
                                                                  featureName, userId)]]
                /\ UNCHANGED resolveCount
           ELSE IF ~Truthy(secret) \/ Len(secret.v) # 64
           THEN /\ calls' = [calls EXCEPT ![c] =
                        [started EXCEPT !.pc = "done", !.cause = "secret",
                                        !.config = EmptyConfig,
                                        !.result = EvaluateConfig(EmptyConfig, featureName, userId)]]
                /\ UNCHANGED resolveCount
           ELSE /\ calls' = [calls EXCEPT ![c] =
                        [started EXCEPT !.pc = "awaiting", !.resolved = TRUE]]
                /\ resolveCount' = resolveCount + 1
    /\ UNCHANGED <<mode, secret, published, wire, now, configCache, flagCache, ticksLeft, probe>>

\* a refresh that looks at the cache again once dns.resolveTxt has settled and
\* keeps a live entry another evaluation stored in the meantime
isFlagEnabled_resume_firstWins(c, outcome) ==
    /\ mode = "single"
    /\ calls[c].pc = "awaiting"
    /\ LET r == getFlagConfig(calls[c].baseDomain, outcome)
           kept == Live(configCache, calls[c].baseDomain)
           config == IF kept THEN configCache[calls[c].baseDomain].value ELSE r.config
       IN  /\ configCache' = IF kept THEN configCache
                             ELSE MapSet(configCache, calls[c].baseDomain, r.entry)
           /\ calls' = [calls EXCEPT ![c] =
                   [@ EXCEPT !.pc = "done", !.cause = r.cause, !.config = config,
                             !.replaced = Stored(configCache, calls[c].baseDomain),
                             !.result = EvaluateConfig(config, calls[c].featureName,
                                                       calls[c].userId)]]
    /\ UNCHANGED <<mode, secret, published, wire, now, flagCache, resolveCount, callsLeft, ticksLeft, probe>>

\* dns.resolveTxt settles: the rest of getFlagConfig, then lines 67-83
isFlagEnabled_resume(c, outcome) ==
    /\ mode = "single"
    /\ calls[c].pc = "awaiting"
    /\ LET r == getFlagConfig(calls[c].baseDomain, outcome)
       IN  /\ configCache' = MapSet(configCache, calls[c].baseDomain, r.entry)
           /\ calls' = [calls EXCEPT ![c] =
                   [@ EXCEPT !.pc = "done", !.cause = r.cause, !.config = r.config,
                             !.replaced = Stored(configCache, calls[c].baseDomain),
                             !.result = EvaluateConfig(r.config, calls[c].featureName,
                                                       calls[c].userId)]]
    /\ UNCHANGED <<mode, secret, published, wire, now, flagCache, resolveCount, callsLeft, ticksLeft, probe>>

(***************************************************************************)
(* The per-flag engine: src/flags.ts, lines 1-92                           *)
(***************************************************************************)
flags_DEFAULT_CACHE_TTL_MS == 60 * 1000
flags_FAILURE_CACHE_TTL_MS == 60 * 1000

\* lines 59-70, once dns.resolveTxt has settled with `outcome`
flags_refresh(featureName, baseDomain, outcome) ==
    LET encryptedValue == Join(Flat(outcome.records))
        decrypted == Decrypt(encryptedValue, secret.v)
        got == URLSearchParams_get(ReplaceSemicolons(decrypted.text), featureName)
        flagRule == IF Truthy(got) THEN got.v ELSE S_off
        cause == IF outcome.err \/ encryptedValue = <<>> THEN "lookup"
                 ELSE IF ~decrypted.ok THEN "decrypt"
                 ELSE "ok"
    IN  IF cause = "ok"
        THEN [cause |-> cause, flagRule |-> flagRule,
              entry |-> Entry(flagRule, now + flags_DEFAULT_CACHE_TTL_MS, FALSE,
                              <<featureName, baseDomain>>)]
        ELSE [cause |-> cause, flagRule |-> S_off,
              entry |-> Entry(S_off, now + flags_FAILURE_CACHE_TTL_MS, TRUE,
                              <<featureName, baseDomain>>)]

\* isFlagEnabled of flags.ts with a hit that renews the entry it is served
flags_isFlagEnabled_sliding(c, featureName, baseDomain, userId) ==
    /\ mode = "perflag"
    /\ FreeSlot(c)
    /\ callsLeft > 0
    /\ callsLeft' = callsLeft - 1
    /\ LET domain == Dot(featureName, baseDomain)
           started == [Idle EXCEPT !.featureName = featureName, !.baseDomain = baseDomain,
                                   !.userId = userId, !.startedAt = now]
       IN  IF Live(flagCache, domain)
           THEN /\ calls' = [calls EXCEPT ![c] =
                        [started EXCEPT !.pc = "done", !.hit = TRUE,
                                        !.used = flagCache[domain],
                                        !.config = Str(flagCache[domain].value),
                                        !.result = EvaluateRule(flagCache[domain].value,
                                                                featureName, userId)]]
                /\ flagCache' = [flagCache EXCEPT ![domain].expires =
                                     now + flags_DEFAULT_CACHE_TTL_MS]
                /\ UNCHANGED resolveCount
           ELSE IF ~Truthy(secret)
           THEN /\ calls' = [calls EXCEPT ![c] =
                        [started EXCEPT !.pc = "done", !.cause = "secret",
                                        !.result = R_false]]
                /\ UNCHANGED <<resolveCount, flagCache>>
           ELSE /\ calls' = [calls EXCEPT ![c] =
                        [started EXCEPT !.pc = "awaiting", !.resolved = TRUE]]
                /\ resolveCount' = resolveCount + 1
                /\ UNCHANGED flagCache
    /\ UNCHANGED <<mode, secret, published, wire, now, configCache, ticksLeft, probe>>

\* isFlagEnabled of flags.ts up to the suspension at dns.resolveTxt
flags_isFlagEnabled(c, featureName, baseDomain, userId) ==
    /\ mode = "perflag"
    /\ FreeSlot(c)
    /\ callsLeft > 0
    /\ callsLeft' = callsLeft - 1
    /\ LET domain == Dot(featureName, baseDomain)
           started == [Idle EXCEPT !.featureName = featureName, !.baseDomain = baseDomain,
                                   !.userId = userId, !.startedAt = now]
       IN  IF Live(flagCache, domain)
           THEN /\ calls' = [calls EXCEPT ![c] =
                        [started EXCEPT !.pc = "done", !.hit = TRUE,
                                        !.used = flagCache[domain],
                                        !.config = Str(flagCache[domain].value),
                                        !.result = EvaluateRule(flagCache[domain].value,
                                                                featureName, userId)]]
                /\ UNCHANGED resolveCount
           ELSE IF ~Truthy(secret)
           THEN /\ calls' = [calls EXCEPT ![c] =
                        [started EXCEPT !.pc = "done", !.cause = "secret",
                                        !.result = R_false]]
                /\ UNCHANGED resolveCount
           ELSE /\ calls' = [calls EXCEPT ![c] =
                        [started EXCEPT !.pc = "awaiting", !.resolved = TRUE]]
                /\ resolveCount' = resolveCount + 1
    /\ UNCHANGED <<mode, secret, published, wire, now, configCache, flagCache, ticksLeft, probe>>

\* dns.resolveTxt settles: lines 60-70, then lines 73-91
flags_isFlagEnabled_resume(c, outcome) ==
    /\ mode = "perflag"
    /\ calls[c].pc = "awaiting"
    /\ LET r == flags_refresh(calls[c].featureName, calls[c].baseDomain, outcome)
           domain == Dot(calls[c].featureName, calls[c].baseDomain)
       IN  /\ flagCache' = MapSet(flagCache, domain, r.entry)
           /\ calls' = [calls EXCEPT ![c] =
                   [@ EXCEPT !.pc = "done", !.cause = r.cause, !.config = Str(r.flagRule),
                             !.replaced = Stored(flagCache, domain),
                             !.result = IF r.cause = "ok"
                                        THEN EvaluateRule(r.flagRule, calls[c].featureName,
                                                          calls[c].userId)
                                        ELSE R_false]]
    /\ UNCHANGED <<mode, secret, published, wire, now, configCache, resolveCount, callsLeft, ticksLeft, probe>>

(***************************************************************************)
(* Time                                                                    *)
(***************************************************************************)
\* the clock moves to the last instant an entry is live, or to the instant
\* it expires
ExpiryTimes ==
    {configCache[k].expires : k \in DOMAIN configCache} \cup
    {flagCache[k].expires : k \in DOMAIN flagCache}
TickSteps == {d \in {e - now - 1 : e \in ExpiryTimes} \cup {e - now : e \in ExpiryTimes} : d > 0}

Tick(d) ==
    /\ ticksLeft > 0
    /\ now' = now + d
    /\ ticksLeft' = ticksLeft - 1
    /\ UNCHANGED <<mode, secret, published, wire, configCache, flagCache, calls, resolveCount, callsLeft, probe>>

(***************************************************************************)
(* Specifications                                                          *)
(***************************************************************************)
\* no function has been applied outside the engine
NoProbe == [op |-> "none"]

\* the state after the module is loaded, in the deployment s
Loaded(s) ==
    /\ mode = s.mode
    /\ secret = s.secret
    /\ published = s.published
    /\ wire = Wire(s.mode, s.secret, s.published)
    /\ now = 0
    /\ configCache = <<>>
    /\ flagCache = <<>>
    /\ calls = [c \in CallIds |-> Idle]
    /\ resolveCount = 0

Init ==
    /\ \E s \in Scenarios : Loaded(s)
    /\ probe = NoProbe
    /\ callsLeft = MaxCalls
    /\ ticksLeft = MaxTicks

Resolves(c) == \E outcome \in ResolverOutcomes(Dot(CONFIG_RECORD_NAME, calls[c].baseDomain)) :
                   isFlagEnabled_resume(c, outcome)
flags_Resolves(c) == \E outcome \in ResolverOutcomes(Dot(calls[c].featureName, calls[c].baseDomain)) :
                         flags_isFlagEnabled_resume(c, outcome)

Next ==
    \/ \E r \in SingleRequests : isFlagEnabled(1, r[1], r[2], r[3])
    \/ Resolves(1)
    \/ \E r \in PerFlagRequests : flags_isFlagEnabled(1, r[1], r[2], r[3])
    \/ flags_Resolves(1)
    \/ \E d \in TickSteps : Tick(d)

Spec == Init /\ [][Next]_vars

\* every rule string, evaluated for the published flag by one caller: first
\* from a fresh resolution, then from the cache
RuleInit ==
    /\ \E s \in RuleScenarios : Loaded(s)
    /\ probe = NoProbe
    /\ callsLeft = RuleCalls
    /\ ticksLeft = 0

RuleNext ==
    \/ \E u \in UserIds : isFlagEnabled(1, S_ab, S_bc, u)
    \/ Resolves(1)
    \/ \E u \in UserIds : flags_isFlagEnabled(1, S_ab, S_c, u)
    \/ flags_Resolves(1)

RuleSpec == RuleInit /\ [][RuleNext]_vars

(***************************************************************************)
(* Properties                                                              *)
(***************************************************************************)
Done(c) == calls[c].pc = "done"
Started(c) == calls[c].pc # "idle"

\* the cache and the key of the scope an evaluation belongs to
ScopeCache == IF mode = "single" THEN configCache ELSE flagCache
ScopeKey(c) ==
    IF mode = "single" THEN calls[c].baseDomain
    ELSE Dot(calls[c].featureName, calls[c].baseDomain)

\* the evaluation took its configuration from a resolution, a decryption and
\* a parse that all succeeded: now, or when the entry it was served was made
FromSuccess(c) ==
    IF calls[c].hit THEN ~calls[c].used.failure ELSE calls[c].cause = "ok"

\* the secret passes the check the engine makes before it resolves
SecretAccepted ==
    IF mode = "single" THEN Truthy(secret) /\ Len(secret.v) = 64 ELSE Truthy(secret)

\* C1: in both engines every evaluation that ends, for every flag name, base
\* domain and user, ends with the boolean true or the boolean false, whatever
\* the resolver, the secret and the payload do; none ends with an exception.
C1_Total == \A c \in CallIds : Done(c) => calls[c].result \in {R_true, R_false}

\* the plaintext the operator published under a record name
PublishedAt(name) ==
    IF name = PrimaryName(mode) THEN published ELSE SecondaryPlaintext(mode)
IsPublishedName(name) == name \in {PrimaryName(mode), SecondaryName(mode)}

\* what an authentic refresh of the scope of `writer` yields
AuthenticValue(writer) ==
    IF mode = "single"
    THEN JSON_parse(PublishedAt(Dot(writer[1], writer[2]))).val
    ELSE LET got == URLSearchParams_get(
                        ReplaceSemicolons(PublishedAt(Dot(writer[1], writer[2]))), writer[1])
         IN  IF Truthy(got) THEN got.v ELSE S_off

\* the rule a configuration holds for the flag
RuleOf(config, featureName) ==
    IF mode = "single"
    THEN IF config.t \in {"null", "undefined"} THEN Undefined
         ELSE GetProperty(config, featureName)
    ELSE config

\* the rule is 'on', or a rollout rule that the user satisfies
Satisfied(rule, featureName, userId) ==
    /\ rule.t = "string"
    /\ \/ rule.v = S_on
       \/ /\ StartsWith(rule.v, S_rollout)
          /\ LET percentage == parseInt(SubSeq(rule.v, Len(S_rollout) + 1, Len(rule.v)))
             IN  /\ ~percentage.nan
                 /\ \/ percentage.val >= 100
                    \/ /\ Truthy(userId)
                       /\ _getUserRolloutValue(featureName, userId.v) <= percentage.val

\* a cache entry made by the failure path holds the fail-closed value, and one
\* made by the success path holds what the operator published for its scope
EntryHonest(e) ==
    IF e.failure
    THEN e.value = (IF mode = "single" THEN EmptyConfig ELSE S_off)
    ELSE /\ IsPublishedName(Dot(e.writer[1], e.writer[2]))
         /\ e.value = AuthenticValue(e.writer)

Starts == callsLeft' = callsLeft - 1

\* C3 as stated: a cached entry is used only before its expiry, and every
\* evaluation that finds its scope's entry expired or absent performs a new
\* resolution.
C3_ResolvesOnEveryMiss ==
    \A c \in CallIds :
        /\ calls[c].hit => calls[c].startedAt < calls[c].used.expires
        /\ Started(c) /\ ~calls[c].hit => calls[c].resolved

\* C3: a cached entry is used only at times before its expiry, and an
\* evaluation that finds its scope's entry expired or absent, with a secret
\* that passes the engine's check, calls the resolver once more; an
\* evaluation served from the cache does not call it.
C3_Freshness ==
    [][Starts =>
        /\ calls'[1].hit =>
               /\ now < calls'[1].used.expires
               /\ resolveCount' = resolveCount
        /\ ~calls'[1].hit /\ SecretAccepted =>
               /\ calls'[1].resolved
               /\ resolveCount' = resolveCount + 1
        /\ calls'[1].hit <=>
               \E k \in DOMAIN ScopeCache :
                   k = ScopeKey(1)' /\ now < ScopeCache[k].expires]_vars

\* an evaluation is resolving anew while the expired entry of its scope is
\* still in the cache
C3_Witness ==
    /\ calls[1].pc = "awaiting"
    /\ resolveCount = 2
    /\ ScopeKey(1) \in DOMAIN ScopeCache
    /\ ScopeCache[ScopeKey(1)].expires <= now

\* the lifetimes the engine in use gives its entries
SuccessTtl == IF mode = "single" THEN DEFAULT_CACHE_TTL_MS ELSE flags_DEFAULT_CACHE_TTL_MS
FailureTtl == IF mode = "single" THEN FAILURE_CACHE_TTL_MS ELSE flags_FAILURE_CACHE_TTL_MS
FailClosedValue == IF mode = "single" THEN EmptyConfig ELSE S_off

\* the evaluation was served a live entry that a failure wrote
ServedFailure(c) == Done(c) /\ calls[c].hit /\ calls[c].used.failure

\* C4: once a resolution, decryption or parse failure is cached for a scope,
\* every evaluation of the scope that starts before the entry expires returns
\* false and does not call the resolver.
C4_NegativeCaching ==
    \A c \in CallIds :
        ServedFailure(c) => calls[c].result = R_false /\ ~calls[c].resolved

\* C5: every entry a failure path writes holds the fail-closed value ({} or
\* 'off') and lives for the failure TTL, which is at most the success TTL;
\* while it is live every flag of its scope evaluates to false.
C5_FailureEntries ==
    /\ FailureTtl <= SuccessTtl
    /\ \A k \in DOMAIN ScopeCache :
           ScopeCache[k].failure =>
               /\ ScopeCache[k].value = FailClosedValue
               /\ ScopeCache[k].expires - ScopeCache[k].written = FailureTtl
    /\ \A c \in CallIds :
           Done(c) /\ calls[c].hit /\ calls[c].used.failure
               /\ calls[c].startedAt < calls[c].used.expires
           => calls[c].result = R_false

\* C6: an evaluation that misses the cache and finds the secret absent or
\* malformed returns false and leaves, for its scope, a fail-closed entry
\* with the failure TTL, as a resolution, decryption or parse failure does.
C6_SecretFailureCached ==
    \A c \in CallIds :
        Done(c) /\ calls[c].cause = "secret" =>
            /\ calls[c].result = R_false
            /\ ScopeKey(c) \in DOMAIN ScopeCache
            /\ ScopeCache[ScopeKey(c)].value = FailClosedValue
            /\ ScopeCache[ScopeKey(c)].expires - ScopeCache[ScopeKey(c)].written = FailureTtl

\* a configuration of the structured mode: an object whose values are strings
IsRuleObject(config) ==
    /\ config.t = "object"
    /\ \A i \in 1..Len(config.v) : config.v[i][2].t = "string"

\* C7: in single-record mode a plaintext that parses as JSON but is not an
\* object of strings is never cached with the success TTL: the empty
\* configuration is cached with the failure TTL and the evaluation returns
\* false.
C7_StructuralValidation ==
    mode = "single" =>
        /\ \A k \in DOMAIN configCache :
               /\ IsRuleObject(configCache[k].value)
               /\ ~IsRuleObject(JSON_parse(PublishedAt(Dot(S_ripple, k))).val) =>
                      /\ configCache[k].value = EmptyConfig
                      /\ configCache[k].expires - configCache[k].written = FAILURE_CACHE_TTL_MS
        /\ \A c \in CallIds :
               Done(c) /\ ~IsRuleObject(JSON_parse(PublishedAt(Dot(S_ripple, calls[c].baseDomain))).val)
               => calls[c].result = R_false

\* the plaintext that gives flag a.b the rule
PublishedRule(rule) ==
    IF mode = "single" THEN JsonConfig(Quoted(rule)) ELSE FlagPlaintext(S_ab, rule)

\* the evaluation is over and applied the rule the operator published
Evaluated(c) == Done(c) /\ FromSuccess(c)

\* C8: under a rollout rule with percentage p, an evaluation with no user
\* identifier (undefined or empty) returns false when p < 100 and true when
\* p >= 100, and for p >= 100 every user gets true.
C8_RolloutWithoutUser ==
    \A p \in Percentages : \A c \in CallIds :
        Evaluated(c) /\ published = PublishedRule(RolloutRule(p)) =>
            /\ ~Truthy(calls[c].userId) => calls[c].result = BoolResult(p >= 100)
            /\ p >= 100 => calls[c].result = R_true

\* the full rollout answered true to a caller without user identifier, and
\* the cache held the rule
C8_Witness ==
    \E c \in CallIds :
        /\ Evaluated(c) /\ calls[c].hit
        /\ published = PublishedRule(RolloutRule(100))
        /\ calls[c].userId = Undefined
        /\ calls[c].result = R_true

\* C9: rule 'on' returns true, rule 'off' returns false, and a rollout of p
\* with 0 <= p < 100 and a user identifier returns (bucket <= p); the bucket
\* is at least 1, so a rollout of 0 returns false for every user.
C9_DecisionTable ==
    \A c \in CallIds :
        Evaluated(c) =>
            /\ published = PublishedRule(S_on) => calls[c].result = R_true
            /\ published = PublishedRule(S_off) => calls[c].result = R_false
            /\ \A p \in Percentages :
                   /\ 0 <= p /\ p < 100
                   /\ published = PublishedRule(RolloutRule(p))
                   /\ Truthy(calls[c].userId)
                   => LET bucket == _getUserRolloutValue(calls[c].featureName, calls[c].userId.v)
                      IN  /\ bucket >= 1
                          /\ calls[c].result = BoolResult(bucket <= p)
                          /\ p = 0 => calls[c].result = R_false

\* a user whose bucket equals the percentage is in the rollout
C9_Witness ==
    \E c \in CallIds :
        /\ Evaluated(c)
        /\ published = PublishedRule(RolloutRule(4))
        /\ Truthy(calls[c].userId)
        /\ _getUserRolloutValue(calls[c].featureName, calls[c].userId.v) = 4
        /\ calls[c].result = R_true

\* an optional minus sign and then digits only
IsInteger(s) ==
    LET digits == IF s # <<>> /\ Head(s) = "-" THEN Tail(s) ELSE s
    IN  digits # <<>> /\ \A i \in 1..Len(digits) : IsDigit(digits[i])
IntegerValue(s) ==
    IF Head(s) = "-" THEN 0 - DecimalValue(Tail(s)) ELSE DecimalValue(s)

\* the rule a raw string stands for, as specified
Interpret(raw) ==
    IF raw = S_on THEN [kind |-> "on", p |-> 0]
    ELSE IF StartsWith(raw, S_rollout) /\ IsInteger(SubSeq(raw, Len(S_rollout) + 1, Len(raw)))
    THEN [kind |-> "rollout",
          p |-> Max(0, Min(100, IntegerValue(SubSeq(raw, Len(S_rollout) + 1, Len(raw)))))]
    ELSE [kind |-> "off", p |-> 0]

\* the decision a rule gives
Decide(rule, featureName, userId) ==
    CASE rule.kind = "on" -> R_true
      [] rule.kind = "off" -> R_false
      [] OTHER ->
            IF rule.p >= 100 THEN R_true
            ELSE IF ~Truthy(userId) THEN R_false
            ELSE BoolResult(_getUserRolloutValue(featureName, userId.v) <= rule.p)

\* C10: 'on' is On, 'rollout=' followed by an integer n is
\* Rollout(clamp(n, 0, 100)), and every other string is Off, in particular
\* 'rollout=' followed by something that is not entirely an integer
\* ('rollout=25abc', 'rollout=5=0', 'rollout='); the evaluation returns what
\* that rule decides.
C10_RuleInterpretation ==
    \A raw \in RuleStrings : \A c \in CallIds :
        Evaluated(c) /\ published = PublishedRule(raw) =>
            calls[c].result = Decide(Interpret(raw), calls[c].featureName, calls[c].userId)

\* the flag name is a key of the configuration the operator published for
\* the scope of the evaluation
IsPublishedKey(featureName, baseDomain) ==
    LET name == IF mode = "single" THEN Dot(S_ripple, baseDomain)
                ELSE Dot(featureName, baseDomain)
    IN  /\ IsPublishedName(name)
        /\ IF mode = "single"
           THEN LET config == JSON_parse(PublishedAt(name)).val
                IN  /\ config.t = "object"
                    /\ \E i \in 1..Len(config.v) : config.v[i][1] = featureName
           ELSE URLSearchParams_get(ReplaceSemicolons(PublishedAt(name)), featureName) # Null

\* C11: an evaluation of a flag name that is not a key of the successfully
\* resolved configuration, whatever the name ('constructor' included), takes
\* the default rule Off and returns false.
C11_AbsentFlagIsOff ==
    \A c \in CallIds :
        /\ Evaluated(c)
        /\ mode = "single" => IsRuleObject(calls[c].config)
        /\ ~IsPublishedKey(calls[c].featureName, calls[c].baseDomain)
        => calls[c].result = R_false

(***************************************************************************)
(* The rollout bucket, applied on its own                                  *)
(***************************************************************************)
\* applications of _getUserRolloutValue to one input in one behaviour
BucketCalls == 2

\* the engine is not in use
Unloaded ==
    /\ mode = "none" /\ secret = Undefined /\ published = <<>> /\ wire = <<>>
    /\ now = 0 /\ configCache = <<>> /\ flagCache = <<>>
    /\ calls = [c \in CallIds |-> Idle]
    /\ resolveCount = 0 /\ callsLeft = 0 /\ ticksLeft = 0
EngineUnchanged ==
    UNCHANGED <<mode, secret, published, wire, now, configCache, flagCache, calls,
                resolveCount, callsLeft, ticksLeft>>

\* the first four bytes hash.digest() can have: those of the strings the
\* model hashes, and every combination of a few byte values
ByteSamples == {0, 1, 99, 255}
DigestHeads ==
    {DigestHead(n) : n \in {S_a \o S_x, S_a \o S_bx, S_ab \o S_bx,
                            S_constructor \o S_x, S_constructor \o S_bx}}
    \cup [1..4 -> ByteSamples]

BucketInit ==
    /\ Unloaded
    /\ \E d \in DigestHeads : probe = [op |-> "bucket", digest |-> d, values |-> <<>>]

\* one more call of _getUserRolloutValue with the same arguments
getUserRolloutValue_call ==
    /\ probe.op = "bucket"
    /\ Len(probe.values) < BucketCalls
    /\ probe' = [probe EXCEPT !.values = Append(@, RolloutValueOfDigest(probe.digest))]
    /\ EngineUnchanged

BucketNext == getUserRolloutValue_call

BucketSpec == BucketInit /\ [][BucketNext]_vars

\* the four bytes read as a big-endian number, modulo 100, byte by byte
DigestMod100(d) ==
    ((((((d[1] % 100) * 256 + d[2]) % 100) * 256 + d[3]) % 100) * 256 + d[4]) % 100

\* C12: the bucket is (first four digest bytes as an unsigned big-endian
\* integer, modulo 100) + 1, lies in 1..100, and is the same at every call
\* with the same inputs.
C12_BucketRange ==
    probe.op = "bucket" =>
        \A i \in 1..Len(probe.values) :
            /\ probe.values[i] \in 1..100
            /\ probe.values[i] = DigestMod100(probe.digest) + 1
            /\ probe.values[i] = probe.values[1]

\* the bucket of a digest whose number is 99 modulo 100, computed twice
C12_Witness ==
    /\ probe.op = "bucket"
    /\ Len(probe.values) = 2
    /\ probe.values[2] = 100

\* what a fresh, successful resolution gives the evaluation
FreshResult(featureName, baseDomain, userId) ==
    IF mode = "single"
    THEN EvaluateConfig(AuthenticValue(<<S_ripple, baseDomain>>), featureName, userId)
    ELSE EvaluateRule(AuthenticValue(<<featureName, baseDomain>>), featureName, userId)

\* C13: for a fixed published configuration, flag name and user, an
\* evaluation returns the same result from a cache hit as from a fresh
\* resolution, at every clock value and after every sequence of earlier
\* evaluations of other flags, users or scopes.
C13_CacheIndependent ==
    \A c \in CallIds :
        Evaluated(c) =>
            calls[c].result = FreshResult(calls[c].featureName, calls[c].baseDomain,
                                          calls[c].userId)

(***************************************************************************)
(* The encrypting tool and the per-flag engine reading its record          *)
(***************************************************************************)
\* evaluations started in one behaviour of the tool specification
ToolCalls == 2

\* src/unnamed/part_001, lines 27-36: a numeric argument becomes a clamped
\* rollout rule; valueArg is process.argv[3]
featureState(valueArg) ==
    IF valueArg # Undefined /\ ~parseInt(valueArg.v).nan
    THEN LET percentage == Max(0, Min(100, parseInt(valueArg.v).val))
         IN  S_rollout \o NumberToString(percentage)
    ELSE IF Truthy(valueArg) THEN valueArg.v ELSE S_on

\* src/encrypt-flag.js, line 62: process.argv[3] || 'on'
encrypt_flag_featureState(valueArg) ==
    IF Truthy(valueArg) THEN valueArg.v ELSE S_on

\* the two versions of the tool, and the values of process.argv[3]
Tools == {"part_001", "encrypt-flag.js"}
ToolArguments ==
    {Undefined, Str(S_on), Str(S_off)} \cup
    {Str(NumberToString(n)) : n \in {0, 4, 25, 100, 150}} \cup {Str(<<"-", "5">>)}

\* `${featureName}=${featureState}`
ToolPlaintext(tool, featureName, valueArg) ==
    FlagPlaintext(featureName,
                  IF tool = "part_001" THEN featureState(valueArg)
                  ELSE encrypt_flag_featureState(valueArg))

\* node encrypt-flag.js <featureName> <valueArg>, and the operator publishes
\* the printed value at <featureName>.c
encrypt_flag(tool, featureName, valueArg) ==
    /\ probe = NoProbe
    /\ published' = ToolPlaintext(tool, featureName, valueArg)
    /\ wire' = Wire(mode, secret, ToolPlaintext(tool, featureName, valueArg))
    /\ probe' = [op |-> "tool", tool |-> tool, featureName |-> featureName,
                 valueArg |-> valueArg]
    /\ UNCHANGED <<mode, secret, now, configCache, flagCache, calls, resolveCount,
                   callsLeft, ticksLeft>>

ToolInit ==
    /\ mode = "perflag" /\ secret = Str(GoodSecret) /\ published = <<>> /\ wire = <<>>
    /\ now = 0 /\ configCache = <<>> /\ flagCache = <<>>
    /\ calls = [c \in CallIds |-> Idle]
    /\ resolveCount = 0 /\ callsLeft = ToolCalls /\ ticksLeft = 0
    /\ probe = NoProbe

ToolNext ==
    \/ \E tool \in Tools, valueArg \in ToolArguments : encrypt_flag(tool, S_ab, valueArg)
    \/ probe # NoProbe /\ \E u \in UserIds : flags_isFlagEnabled(1, S_ab, S_c, u)
    \/ flags_Resolves(1)

ToolSpec == ToolInit /\ [][ToolNext]_vars

\* C14: run with a flag name and an integer n, the tool encrypts
\* 'name=rollout=' followed by clamp(n, 0, 100), and the per-flag engine
\* reading that record evaluates the flag as a rollout of that percentage.
C14_ProducerConsumer ==
    probe.op = "tool" /\ probe.valueArg # Undefined /\ IsInteger(probe.valueArg.v) =>
        LET p == Max(0, Min(100, IntegerValue(probe.valueArg.v)))
        IN  /\ published = FlagPlaintext(probe.featureName, S_rollout \o NumberToString(p))
            /\ \A c \in CallIds :
                   Evaluated(c) =>
                       calls[c].result = Decide([kind |-> "rollout", p |-> p],
                                                calls[c].featureName, calls[c].userId)

\* the raw rule the published configuration of the scope holds for the flag,
\* 'off' when the flag is absent
PublishedRawRule(featureName, baseDomain) ==
    IF ~IsPublishedKey(featureName, baseDomain) THEN S_off
    ELSE IF mode = "single"
    THEN OwnProperty(JSON_parse(PublishedAt(Dot(S_ripple, baseDomain))).val.v, featureName).v
    ELSE URLSearchParams_get(ReplaceSemicolons(PublishedAt(Dot(featureName, baseDomain))),
                             featureName).v

\* the result the specified interpretation of the published configuration
\* dictates
DictatedResult(featureName, baseDomain, userId) ==
    Decide(Interpret(PublishedRawRule(featureName, baseDomain)), featureName, userId)

\* the refresh of the evaluation succeeded and overwrote a failure entry
Recovered(c) ==
    /\ Done(c) /\ calls[c].resolved /\ calls[c].cause = "ok"
    /\ calls[c].replaced # NoEntry /\ calls[c].replaced.failure
    /\ mode = "single" => IsRuleObject(calls[c].config)

\* C15: once the failure entry of a scope has expired, the next evaluation
\* of the scope resolves anew, and if resolution, decryption and parsing
\* succeed it returns what the fresh configuration dictates and leaves a
\* success entry with the success TTL in place of the failure entry.
C15_Recovery ==
    \A c \in CallIds :
        /\ Started(c) /\ ~calls[c].hit /\ ScopeKey(c) \in DOMAIN ScopeCache
               => calls[c].resolved
        /\ Recovered(c) =>
               /\ calls[c].replaced.expires <= calls[c].startedAt
               /\ ~ScopeCache[ScopeKey(c)].failure
               /\ ScopeCache[ScopeKey(c)].expires - ScopeCache[ScopeKey(c)].written = SuccessTtl
               /\ calls[c].result = DictatedResult(calls[c].featureName, calls[c].baseDomain,
                                                   calls[c].userId)

\* C16: an evaluation that finds a live entry for its scope ends without a
\* resolution and without a decryption, and leaves every cache entry as it
\* was: value and expiry.
C16_HitReadOnly ==
    [][Starts /\ (\E k \in DOMAIN ScopeCache :
                      k = ScopeKey(1)' /\ now < ScopeCache[k].expires) =>
        /\ calls'[1].pc = "done"
        /\ calls'[1].hit /\ ~calls'[1].resolved
        /\ resolveCount' = resolveCount
        /\ configCache' = configCache
        /\ flagCache' = flagCache]_vars

\* an evaluation was served an entry one millisecond before its expiry, and
\* the entry is as it was written
C16_Witness ==
    /\ Done(1) /\ calls[1].hit
    /\ now = calls[1].used.expires - 1
    /\ ScopeCache[ScopeKey(1)] = calls[1].used

(***************************************************************************)
(* The tool's encrypt and the engine's decrypt, applied one after the      *)
(* other                                                                   *)
(***************************************************************************)
\* the longest plaintext made of the characters of PlaintextAlphabet
MaxPlaintextLen == 2

PlaintextAlphabet == {"a", "=", EAcute}
Plaintexts ==
    UNION {[1..n -> PlaintextAlphabet] : n \in 0..MaxPlaintextLen}
    \cup {JsonConfig(Quoted(RolloutRule(25))), FlagPlaintext(S_ab, S_on)}
\* secrets of 64 hexadecimal characters
ValidSecrets == {GoodSecret, OtherSecret, [i \in 1..64 |-> IF i % 2 = 1 THEN "F" ELSE "0"]}
Nonces == {randomBytes(1), [i \in 1..IV_LENGTH |-> 0]}

RoundTripInit ==
    /\ Unloaded
    /\ \E p \in Plaintexts, k \in ValidSecrets, iv \in Nonces :
           probe = [op |-> "roundtrip", stage |-> "start", plaintext |-> p, secret |-> k,
                    iv |-> iv]

\* the tool: encrypt(plaintext, secret), randomBytes returning iv
encrypt_call ==
    /\ probe.op = "roundtrip" /\ probe.stage = "start"
    /\ probe' = [op |-> "roundtrip", stage |-> "encrypted", plaintext |-> probe.plaintext,
                 secret |-> probe.secret,
                 made |-> encrypt_parts(probe.plaintext, probe.secret, probe.iv),
                 envelope |-> encrypt(probe.plaintext, probe.secret, probe.iv)]
    /\ EngineUnchanged

\* the engine: decrypt(encryptedText, secret)
decrypt_call ==
    /\ probe.op = "roundtrip" /\ probe.stage = "encrypted"
    /\ probe' = [op |-> "roundtrip", stage |-> "decrypted", plaintext |-> probe.plaintext,
                 made |-> probe.made, envelope |-> probe.envelope,
                 parts |-> decrypt_parts(probe.envelope),
                 decrypted |-> decrypt(probe.envelope, probe.secret)]
    /\ EngineUnchanged

RoundTripNext == encrypt_call \/ decrypt_call

RoundTripSpec == RoundTripInit /\ [][RoundTripNext]_vars

\* C17: decrypt splits the envelope the tool made into the nonce (first 16
\* bytes), the tag (last 16 bytes) and the ciphertext (the bytes between)
\* that the tool put in it, and returns exactly the plaintext.
C17_RoundTrip ==
    probe.op = "roundtrip" /\ probe.stage = "decrypted" =>
        /\ Base64Decode(probe.envelope) =
               probe.made.iv \o probe.made.ciphertext \o probe.made.authTag
        /\ probe.parts.iv = probe.made.iv /\ Len(probe.parts.iv) = 16
        /\ probe.parts.authTag = probe.made.authTag /\ Len(probe.parts.authTag) = 16
        /\ probe.parts.ciphertext = probe.made.ciphertext
        /\ probe.decrypted.ok
        /\ probe.decrypted.text = probe.plaintext

\* a plaintext with a two-byte character came back
C17_Witness ==
    /\ probe.op = "roundtrip" /\ probe.stage = "decrypted"
    /\ probe.plaintext = <<EAcute, "=">>
    /\ Len(probe.parts.ciphertext) = 3
    /\ probe.decrypted.text = probe.plaintext

(***************************************************************************)
(* Concurrent evaluations                                                  *)
(***************************************************************************)
\* evaluations started in one behaviour of the concurrency specification
ConcCalls == 3
\* clock advances in one behaviour of the concurrency specification
ConcTicks == 1

\* one deployment of each engine, with a rollout of 25 percent published
ConcScenarios ==
    { [mode |-> "single", secret |-> Str(GoodSecret),
       published |-> JsonConfig(Quoted(RolloutRule(25)))],
      [mode |-> "perflag", secret |-> Str(GoodSecret),
       published |-> FlagPlaintext(S_ab, RolloutRule(25))] }

\* two evaluations of one scope, for different users
ConcSingleRequests == { <<S_ab, S_bc, Str(S_x)>>, <<S_ab, S_bc, Str(S_bx)>> }
ConcPerFlagRequests == { <<S_ab, S_c, Str(S_x)>>, <<S_ab, S_c, Str(S_bx)>> }

ConcInit ==
    /\ \E s \in ConcScenarios : Loaded(s)
    /\ probe = NoProbe
    /\ callsLeft = ConcCalls
    /\ ticksLeft = ConcTicks

\* the record an evaluation resolves
RecordName(c) ==
    IF mode = "single" THEN Dot(CONFIG_RECORD_NAME, calls[c].baseDomain)
    ELSE Dot(calls[c].featureName, calls[c].baseDomain)

\* dns.resolveTxt fails, or returns the published record in two chunks
ConcOutcomes(fqdn) ==
    {Threw} \cup
    {Returned(<< InChunks(wire[i].text) >>) :
         i \in {j \in 1..Len(wire) : fqdn \in wire[j].names /\ wire[j].plain.ok}}

\* evaluations start while others are suspended at dns.resolveTxt, the
\* resolutions settle in any order, and the clock moves to the instant an
\* entry expires
ConcNext ==
    \/ \E c \in CallIds, r \in ConcSingleRequests : isFlagEnabled(c, r[1], r[2], r[3])
    \/ \E c \in CallIds : \E outcome \in ConcOutcomes(RecordName(c)) :
           isFlagEnabled_resume(c, outcome)
    \/ \E c \in CallIds, r \in ConcPerFlagRequests : flags_isFlagEnabled(c, r[1], r[2], r[3])
    \/ \E c \in CallIds : \E outcome \in ConcOutcomes(RecordName(c)) :
           flags_isFlagEnabled_resume(c, outcome)
    \/ \E e \in ExpiryTimes : e > now /\ Tick(e - now)

ConcSpec == ConcInit /\ [][ConcNext]_vars

\* what the resolution `outcome` of evaluation c gives: how it ended, the
\* entry to store and the result to return
OwnRefresh(c, outcome) ==
    IF mode = "single"
    THEN LET r == getFlagConfig(calls[c].baseDomain, outcome)
         IN  [entry |-> r.entry, cause |-> r.cause,
              result |-> EvaluateConfig(r.config, calls[c].featureName, calls[c].userId)]
    ELSE LET r == flags_refresh(calls[c].featureName, calls[c].baseDomain, outcome)
         IN  [entry |-> r.entry, cause |-> r.cause,
              result |-> IF r.cause = "ok"
                         THEN EvaluateRule(r.flagRule, calls[c].featureName, calls[c].userId)
                         ELSE R_false]

ScopeOf(c) ==
    IF mode = "single" THEN <<S_ripple, calls[c].baseDomain>>
    ELSE <<calls[c].featureName, calls[c].baseDomain>>

\* C19: the cache entry an evaluation is served was written by an evaluation
\* of the same scope: the same (flagName, baseDomain) pair in per-flag mode,
\* the same base domain in single-record mode.
C19_ScopeIsolation ==
    \A c \in CallIds :
        Done(c) /\ calls[c].hit => calls[c].used.writer = ScopeOf(c)

\* a secret of exactly 64 hexadecimal characters
ValidSecret ==
    /\ secret.t = "string"
    /\ Len(secret.v) = 64
    /\ \A i \in 1..Len(secret.v) : IsHexDigit(secret.v[i])

\* C20: with a secret that is absent, not 64 characters long or not
\* hexadecimal, no record is ever resolved, every evaluation returns false,
\* and nothing is ever decrypted with a key cut or padded from that secret.
C20_SecretValidation ==
    ~ValidSecret =>
        /\ resolveCount = 0
        /\ \A c \in CallIds :
               /\ ~calls[c].resolved
               /\ calls[c].cause # "ok"
               /\ Done(c) => calls[c].result = R_false

(***************************************************************************)
(* The answer of dns.resolveTxt: records of fragments                      *)
(***************************************************************************)
\* evaluations started in one behaviour of the assembly specification
AssemblyCalls == 2

EmptyShapes == {"no record", "record without fragment", "empty fragment", "empty fragments"}
InOrderShapes == {"one fragment", "two fragments", "two records"}
SwappedShapes == {"two fragments swapped", "two records swapped"}

\* the records dns.resolveTxt returns for the envelope `text`, cut in two
\* halves where the shape says so
Answer(shape, text) ==
    LET halves == InChunks(text)
    IN  CASE shape = "no record" -> <<>>
          [] shape = "record without fragment" -> << <<>> >>
          [] shape = "empty fragment" -> << << <<>> >> >>
          [] shape = "empty fragments" -> << << <<>>, <<>> >>, << <<>> >> >>
          [] shape = "one fragment" -> << <<text>> >>
          [] shape = "two fragments" -> << <<halves[1], halves[2]>> >>
          [] shape = "two records" -> << <<halves[1]>>, <<halves[2]>> >>
          [] shape = "two fragments swapped" -> << <<halves[2], halves[1]>> >>
          [] shape = "two records swapped" -> << <<halves[2]>>, <<halves[1]>> >>

\* evaluations of the published scope
AssemblySingleRequests ==
    { <<S_ab, S_bc, Str(S_x)>>, <<S_ab, S_bc, Undefined>>, <<S_constructor, S_bc, Undefined>> }
AssemblyPerFlagRequests ==
    { <<S_ab, S_c, Str(S_x)>>, <<S_ab, S_c, Undefined>> }

\* the resolver answers every query of the behaviour with the published
\* envelope in one shape
AssemblyInit ==
    /\ \E s \in ConcScenarios : Loaded(s)
    /\ \E shape \in EmptyShapes \cup InOrderShapes \cup SwappedShapes :
           probe = [op |-> "resolveTxt", shape |-> shape,
                    records |-> Answer(shape, wire[1].text)]
    /\ callsLeft = AssemblyCalls
    /\ ticksLeft = 0

AssemblyNext ==
    \/ \E r \in AssemblySingleRequests : isFlagEnabled(1, r[1], r[2], r[3])
    \/ isFlagEnabled_resume(1, Returned(probe.records))
    \/ \E r \in AssemblyPerFlagRequests : flags_isFlagEnabled(1, r[1], r[2], r[3])
    \/ flags_isFlagEnabled_resume(1, Returned(probe.records))

AssemblySpec == AssemblyInit /\ [][AssemblyNext]_vars

\* C21: the fragments are concatenated as returned: the envelope arrives
\* whole when its pieces come in order and does not when they come swapped;
\* an answer without records or with empty fragments only is a lookup
\* failure: nothing is decrypted, the evaluation returns false and the entry
\* stored is fail-closed with the failure TTL.
C21_RecordAssembly ==
    Done(1) /\ calls[1].resolved =>
        /\ probe.shape \in InOrderShapes => calls[1].cause = "ok"
        /\ probe.shape \in SwappedShapes => calls[1].cause = "decrypt"
        /\ probe.shape \in EmptyShapes =>
               /\ calls[1].cause = "lookup"
               /\ calls[1].result = R_false
               /\ ScopeCache[ScopeKey(1)].failure
               /\ ScopeCache[ScopeKey(1)].value = FailClosedValue
               /\ ScopeCache[ScopeKey(1)].expires = ScopeCache[ScopeKey(1)].written + FailureTtl

\* C22: in the per-flag engine an entry written by a failure expires 10
\* seconds after it is stored, sooner than a success entry, and no evaluation
\* that starts 10 seconds or more after the failed refresh is served from it.
C22_PerFlagFailureTtl ==
    mode = "perflag" =>
        /\ \A k \in DOMAIN flagCache :
               flagCache[k].failure =>
                   /\ flagCache[k].expires = flagCache[k].written + 10 * 1000
                   /\ flagCache[k].expires < flagCache[k].written + flags_DEFAULT_CACHE_TTL_MS
        /\ \A c \in CallIds :
               Done(c) /\ calls[c].hit /\ calls[c].used.failure =>
                   calls[c].startedAt < calls[c].used.written + 10 * 1000

(***************************************************************************)
(* The rollout decision, applied on its own to two requests                *)
(***************************************************************************)
\* flag names with user identifiers; 'a' + '.bx', 'a.b' + 'x' and 'a.bx' + ''
\* are the same string
DecisionPairs ==
    { <<S_a, Str(S_x)>>, <<S_a, Str(S_bx)>>, <<S_ab, Str(S_x)>>, <<S_ab, Str(S_bx)>>,
      <<S_abx, Str(<<>>)>>, <<S_ab, Undefined>> }
DecisionPercentages == {0 - 5, 0, 3, 4, 5, 25, 99, 100, 101, 150}
DecisionRequests ==
    [featureName : {r[1] : r \in DecisionPairs}, userId : {r[2] : r \in DecisionPairs},
     percentage : DecisionPercentages]

DecisionInit ==
    /\ Unloaded
    /\ \E first \in DecisionRequests, second \in DecisionRequests :
           /\ <<first.featureName, first.userId>> \in DecisionPairs
           /\ <<second.featureName, second.userId>> \in DecisionPairs
           /\ probe = [op |-> "rollout", asked |-> <<first, second>>, results |-> <<>>]

\* the next request is decided under the rule rollout=<percentage> published
\* for its flag: lines 67-83 of part_000 on the configuration holding that
\* rule, lines 73-91 of flags.ts on the rule, and the bucket both would use
Decision(r) ==
    [single |-> EvaluateConfig(Obj(<< <<r.featureName, Str(RolloutRule(r.percentage))>> >>),
                               r.featureName, r.userId),
     perflag |-> EvaluateRule(RolloutRule(r.percentage), r.featureName, r.userId),
     bucket |-> IF r.userId.t = "string"
                THEN _getUserRolloutValue(r.featureName, r.userId.v) ELSE 0]

isFlagEnabled_rule ==
    /\ probe.op = "rollout"
    /\ Len(probe.results) < Len(probe.asked)
    /\ probe' = [probe EXCEPT
                    !.results = Append(@, Decision(probe.asked[Len(probe.results) + 1]))]
    /\ EngineUnchanged

DecisionNext == isFlagEnabled_rule

DecisionSpec == DecisionInit /\ [][DecisionNext]_vars

\* both requests are decided
Decided == probe.op = "rollout" /\ Len(probe.results) = 2

\* the two requests are for pairs of strings with the same concatenation,
\* under the same percentage
SameConcatenation ==
    /\ probe.asked[1].userId.t = "string" /\ probe.asked[2].userId.t = "string"
    /\ probe.asked[1].featureName \o probe.asked[1].userId.v =
           probe.asked[2].featureName \o probe.asked[2].userId.v
    /\ probe.asked[1].percentage = probe.asked[2].percentage

SameDecision ==
    /\ probe.results[1].single = probe.results[2].single
    /\ probe.results[1].perflag = probe.results[2].perflag

\* C23 as stated: pairs with the same concatenation get the same bucket and
\* the same rollout decision at every percentage.
C23_SameConcatenation ==
    Decided /\ SameConcatenation =>
        /\ probe.results[1].bucket = probe.results[2].bucket
        /\ SameDecision

\* C23: pairs with the same concatenation get the same bucket, and the same
\* rollout decision at every percentage when both user identifiers are
\* non-empty or both are empty.
C23_SameConcatenationWithUser ==
    Decided /\ SameConcatenation =>
        /\ probe.results[1].bucket = probe.results[2].bucket
        /\ Truthy(probe.asked[1].userId) = Truthy(probe.asked[2].userId) => SameDecision

\* ('a', '.bx') and ('a.b', 'x') at 4 percent: bucket 4, both enabled
C23_Witness ==
    /\ Decided /\ SameConcatenation
    /\ probe.asked[1].featureName = S_a /\ probe.asked[2].featureName = S_ab
    /\ probe.asked[1].userId = Str(S_bx) /\ probe.asked[2].userId = Str(S_x)
    /\ probe.results[1].bucket = 4 /\ probe.results[2].bucket = 4
    /\ probe.results[1].single = R_true /\ probe.results[2].single = R_true
    /\ probe.results[1].perflag = R_true /\ probe.results[2].perflag = R_true

\* C24: for one flag name and one user identifier, present or absent, a
\* request enabled under rollout=p is enabled under rollout=q for every
\* q >= p, in both engines.
C24_Monotone ==
    Decided /\ probe.asked[1].featureName = probe.asked[2].featureName
            /\ probe.asked[1].userId = probe.asked[2].userId
            /\ probe.asked[1].percentage <= probe.asked[2].percentage =>
        /\ probe.results[1].single = R_true => probe.results[2].single = R_true
        /\ probe.results[1].perflag = R_true => probe.results[2].perflag = R_true

\* a user in bucket 4: disabled at 3 percent, enabled at 4 and still at 25
C24_Witness ==
    /\ Decided
    /\ probe.asked[1].featureName = S_ab /\ probe.asked[2].featureName = S_ab
    /\ probe.asked[1].userId = Str(S_x) /\ probe.asked[2].userId = Str(S_x)
    /\ probe.asked[1].percentage = 4 /\ probe.asked[2].percentage = 25
    /\ probe.results[1].perflag = R_true /\ probe.results[2].perflag = R_true
    /\ probe.results[1].single = R_true /\ probe.results[2].single = R_true
    /\ EvaluateRule(RolloutRule(3), S_ab, Str(S_x)) = R_false

\* evaluation c resumes after dns.resolveTxt and stores its entry in this step
Completes(c) == calls[c].pc = "awaiting" /\ calls'[c].pc = "done"

\* the entry of the scope of evaluation c is in the cache and has not expired
EntryLive(c) ==
    /\ ScopeKey(c) \in DOMAIN ScopeCache
    /\ now < ScopeCache[ScopeKey(c)].expires

\* C25 as stated: every cache write for a scope happens when the entry of
\* that scope is absent or expired.
C25_LiveNeverOverwritten ==
    [][\A c \in CallIds : Completes(c) => ~EntryLive(c)]_vars

\* C25: every evaluation that goes on to write the cache found the entry of
\* its scope absent or expired when it started, and a live entry is replaced
\* only by a refresh that started no later than that entry was stored.
C25_WritesFollowMisses ==
    [][\A c \in CallIds :
        /\ (Starts /\ calls'[c] # calls[c] /\ calls'[c].pc = "awaiting") =>
               \/ ScopeKey(c)' \notin DOMAIN ScopeCache
               \/ now >= ScopeCache[ScopeKey(c)'].expires
        /\ (Completes(c) /\ EntryLive(c)) =>
               /\ calls[c].startedAt <= ScopeCache[ScopeKey(c)].written
               /\ \E d \in CallIds \ {c} : calls[d].pc # "idle"]_vars

\* two evaluations overlapped: the second stored the published rule, then the
\* first failed and replaced that live entry by a fail-closed one
C25_Witness ==
    /\ Done(1) /\ Done(2)
    /\ callsLeft = ConcCalls - 2
    /\ calls[2].replaced = NoEntry /\ calls[2].cause = "ok"
    /\ calls[1].cause = "lookup"
    /\ calls[1].replaced # NoEntry /\ ~calls[1].replaced.failure
    /\ now < calls[1].replaced.expires
    /\ ScopeCache[ScopeKey(1)].failure

====
